---- MODULE Spec2Model ----
(***************************************************************************)
(* SMAP L4 aggregation pipeline: aggregate_one_year                        *)
(* (02_aggregate_smap_he5.py), the multi-year merger                       *)
(* (03_merge_yearly_daily.py) and gather_files (01_check_and_move_smap.py).*)
(*                                                                         *)
(* Numbers.  Coordinates are integers in millidegrees, field values are    *)
(* small integers; both are exactly representable in float32.  A float     *)
(* result (a mean) is a reduced fraction [num, den]; den = 0 is NaN.       *)
(***************************************************************************)
EXTENDS Integers, Sequences, FiniteSets, TLC

VARIABLES prog, pc, err,
          strict, folder, bad, grid, seed,
          files, lat_idx, lon_idx, daily, todo, data_daily, date_list,
          stage, out,
          years, store, yi, data_all, time_all, m_lat_flat, m_lon_flat,
          data_cat, time_cat,
          src_tree, by_day

aggVars   == <<strict, folder, bad, grid, seed, files, lat_idx, lon_idx,
               daily, todo, data_daily, date_list, stage>>
mergeVars == <<years, store, yi, data_all, time_all, m_lat_flat, m_lon_flat,
               data_cat, time_cat>>
checkVars == <<src_tree, by_day>>
vars      == <<prog, pc, err, out, aggVars, mergeVars, checkVars>>

----------------------------------------------------------------------------
(* Bounds of the model *)
MaxDays     == 2      \* calendar days that may have granules in the folder
MaxGaps     == 3      \* how many patterns of absent time-codes a day may show
MaxSeed     == 1      \* field contents are drawn from seeds 0 .. MaxSeed
MaxYears    == 2      \* year containers offered to the merger

----------------------------------------------------------------------------
(* Generic helpers *)
Abs(x) == IF x < 0 THEN -x ELSE x

RECURSIVE Gcd(_, _)
Gcd(a, b) == IF b = 0 THEN a ELSE Gcd(b, a % b)

Range(s) == { s[i] : i \in 1..Len(s) }

RECURSIVE LexLess(_, _)
\* Python's ordering of str / tuple: lexicographic
LexLess(a, b) ==
    IF a = <<>> THEN b # <<>>
    ELSE IF b = <<>> THEN FALSE
    ELSE IF Head(a) # Head(b) THEN Head(a) < Head(b)
    ELSE LexLess(Tail(a), Tail(b))

RECURSIVE SortBy(_, _)
\* sorted(S): ascending list of the elements of S under the strict order of
\* their keys Key[x]
SortBy(S, Key) ==
    IF S = {} THEN <<>>
    ELSE LET m == CHOOSE x \in S : \A y \in S \ {x} : LexLess(Key[x], Key[y])
         IN  <<m>> \o SortBy(S \ {m}, Key)

RECURSIVE SelectIdx(_, _, _)
\* np.where(mask)[0]: the indices i in i..n with P[i], in increasing order
\* (1-based here)
SelectIdx(n, P, i) ==
    IF i > n THEN <<>>
    ELSE (IF P[i] THEN <<i>> ELSE <<>>) \o SelectIdx(n, P, i + 1)

----------------------------------------------------------------------------
(* Floats *)
NaN      == [num |-> 0, den |-> 0]
IsNaN(x) == x.den = 0
Flt(n)   == [num |-> n, den |-> 1]
\* the quotient s / n, n > 0, in lowest terms
Quot(s, n) == LET g == Gcd(Abs(s), n) IN [num |-> s \div g, den |-> n \div g]

\* astype(np.float32) of an integer: exact up to 2^24, above that rounded to
\* the nearest multiple of 2 (ties to even mantissa), up to 2^25
Two24 == 16777216
F32Int(n) ==
    IF Abs(n) <= Two24 THEN n
    ELSE LET a == Abs(n)
             q == a \div 2
             r == IF a % 2 = 0 THEN a ELSE IF q % 2 = 0 THEN 2 * q ELSE 2 * q + 2
         IN  IF n < 0 THEN -r ELSE r

----------------------------------------------------------------------------
(* Configuration of 02_aggregate_smap_he5.py, in millidegrees *)
LAT_MIN == 18000
LAT_MAX == 54000
LON_MIN == 73000
LON_MAX == 136000
SENTINEL == -9000

UTC_CODES == <<"013000", "043000", "073000", "103000",
               "133000", "163000", "193000", "223000">>
NCodes    == 8

\* rank of a 6-digit time string in string order ("000000" < "013000" < ...)
UtcOrder == <<"000000", "013000", "043000", "073000", "103000",
              "133000", "163000", "193000", "223000">>
UtcRank(u) == IF u = "" THEN 0 ELSE CHOOSE i \in 1..Len(UtcOrder) : UtcOrder[i] = u
CodeIdx(u) == CHOOSE i \in 1..NCodes : UTC_CODES[i] = u

----------------------------------------------------------------------------
(* File names.  A name is [pre, day, utc, ext]: pre = 1 for the product     *)
(* prefix "SMAP_L4_SM_gph_", 0 for a name that sorts before it; day is the  *)
(* 8-digit date as a tuple of digits, <<>> when the name has no             *)
(* <8 digits>T<6 digits> stamp; utc the 6-digit time; ext "he5" or "h5".    *)
DayPool == << <<2,0,1,9,0,1,0,9>>, <<2,0,2,0,0,1,0,1>>,
              <<2,0,1,9,0,1,1,0>>, <<2,0,1,9,1,2,3,1>> >>
Days    == { DayPool[i] : i \in 1..MaxDays }

Granule(d, u, e) == [pre |-> 1, day |-> d, utc |-> u, ext |-> e]
Stray            == [pre |-> 0, day |-> <<>>, utc |-> "", ext |-> "h5"]
Unstamped        == [pre |-> 1, day |-> <<>>, utc |-> "", ext |-> "h5"]

NameKey(n) == <<n.pre>> \o n.day \o <<UtcRank(n.utc)>>

RECURSIVE IntOf(_)
\* int(day) of a digit string
IntOf(s) == IF s = <<>> THEN 0 ELSE 10 * IntOf(SubSeq(s, 1, Len(s) - 1)) + s[Len(s)]

----------------------------------------------------------------------------
(* The year folder and its granules *)
\* reference grids a year's granules may carry (cell_lat[:, 0], cell_lon[0, :])
GridPool == << [lat |-> <<60000, 54000, 18000, 10000>>,
                lon |-> <<72000, 73000, 100000, 136000>>],
               [lat |-> <<30000, 60000, 40000, 18000>>,
                lon |-> <<73000, 136001, 136000>>],
               [lat |-> <<60000, 10000>>,
                lon |-> <<80000>>] >>

\* the value stored in sm_rootzone of granule n at global cell (r, c): cells
\* fall into four classes: valid in all readings, fill value in all readings,
\* fill value in every other reading, and readings at and just below -9000
RawVal(n, r, c) ==
    LET k    == (3 * r + c + seed) % 4
        u    == CodeIdx(n.utc)
        base == (IntOf(n.day) % 7) * 1000 + 100 * r + 10 * c + u
                + (IF n.ext = "he5" THEN 5 ELSE 0)
    IN  CASE k = 0 -> base
          [] k = 1 -> -9999
          [] k = 2 -> IF u % 2 = 1 THEN -9999 ELSE base
          [] OTHER -> IF u = 1 THEN -9000 ELSE IF u = 2 THEN -9001 ELSE base

\* the time-codes a day may lack: none, one in the middle, all of them (the
\* day has no granule), the first and the last, the second
GapPool        == << {}, {UTC_CODES[3]}, Range(UTC_CODES),
                     {UTC_CODES[1], UTC_CODES[NCodes]}, {UTC_CODES[2]} >>
PresentChoices == { Range(UTC_CODES) \ GapPool[i] : i \in 1..MaxGaps }
FlakyCodes     == { UTC_CODES[2], UTC_CODES[NCodes] }

BaseFolder(present) ==
    { Granule(d, u, "h5") : d \in Days, u \in Range(UTC_CODES) }
      \cap { g \in [pre : {1}, day : Days, utc : Range(UTC_CODES), ext : {"h5"}] :
             g.utc \in present[g.day] }

ExtraChoices == { {}, {Stray}, {Unstamped}, {Granule(DayPool[1], "000000", "h5")},
                  {Granule(DayPool[1], UTC_CODES[NCodes], "he5")} }

----------------------------------------------------------------------------
(* Output containers *)
YearNames   == <<"latitude", "longitude", "time", "sm_rootzone",
                 "data", "lat_flat", "lon_flat", "flattened">>
MergedNames == <<"data", "time", "lat_flat", "lon_flat", "flattened">>

NoErr       == [kind |-> "none", day |-> <<>>, miss |-> <<>>]
Raise(k)    == [kind |-> k, day |-> <<>>, miss |-> <<>>]
Empty       == [x \in {} |-> 0]
\* what is at the output path before the run: nothing, or an earlier container
OutBefore(names) ==
    { [gen |-> "absent", ds |-> Empty],
      [gen |-> "old", ds |-> [n \in Range(names) |-> <<>>]] }

----------------------------------------------------------------------------
(* 02_aggregate_smap_he5.py: pure parts *)
\* parse_dt: the (day, utc) stamp of a name; Matches is `m` being non-None
Matches(n)  == n.day # <<>>
parse_dt(n) == <<n.day, n.utc>>

\* year_folder.glob("*." + e), sorted by path
Glob(e) == SortBy({ n \in folder : n.ext = e }, [n \in folder |-> NameKey(n)])

get_lat_lon(sample) == <<grid.lat, grid.lon>>

\* np.where((v >= lo) & (v <= hi))[0]
CropIdx(v, lo, hi) ==
    SelectIdx(Len(v), [i \in 1..Len(v) |-> v[i] >= lo /\ v[i] <= hi], 1)

\* sm = f[...][:]; astype(float32); sm[sm < -9000] = nan
Mask_le(v) == IF v <= SENTINEL THEN NaN ELSE Flt(v)
Mask(v) == IF v < SENTINEL THEN NaN ELSE Flt(v)

read_sm(fp, la, lo) ==
    LET sm == [r \in 1..Len(grid.lat) |->
                 [c \in 1..Len(grid.lon) |-> Mask(F32Int(RawVal(fp, r, c)))]]
    IN  [i \in 1..Len(la) |-> [j \in 1..Len(lo) |-> sm[la[i]][lo[j]]]]

RECURSIVE SumNum(_)
SumNum(s) == IF s = <<>> THEN 0 ELSE Head(s).num + SumNum(Tail(s))

\* np.nanmean over one cell's readings: NaN entries are left out of the sum
\* and of the count; all NaN gives NaN
NanMeanCell(xs) ==
    LET ok == SelectSeq(xs, LAMBDA x : ~IsNaN(x))
    IN  IF ok = <<>> THEN NaN ELSE Quot(SumNum(ok), Len(ok))

\* np.nanmean(sm_list, axis=0)
nanmean(sm_list) ==
    LET h == Len(sm_list[1])
        w == Len(sm_list[1][1])
    IN  [i \in 1..h |-> [j \in 1..w |->
           NanMeanCell([k \in 1..Len(sm_list) |-> sm_list[k][i][j]])]]

RECURSIVE Ravel_F(_)
Ravel_F(m) ==
    IF m = <<>> \/ Head(m) = <<>> THEN <<>>
    ELSE [r \in 1..Len(m) |-> Head(m[r])]
           \o Ravel_F([r \in 1..Len(m) |-> Tail(m[r])])
RECURSIVE Ravel(_)
\* C-order flattening of a 2-D array: its rows one after another
Ravel(m) == IF m = <<>> THEN <<>> ELSE Head(m) \o Ravel(Tail(m))

\* np.meshgrid(x, y) with the default "xy" indexing: both results have one
\* row per element of y and one column per element of x
MeshY_tile(x, y) ==
    [r \in 1..Len(y) |-> [c \in 1..Len(x) |->
        y[(((r - 1) * Len(x) + c - 1) % Len(y)) + 1]]]
MeshX(x, y) == [r \in 1..Len(y) |-> x]
MeshY(x, y) == [r \in 1..Len(y) |-> [c \in 1..Len(x) |-> y[r]]]

Pick(v, idx) == [i \in 1..Len(idx) |-> v[idx[i]]]

\* the missing codes of a day group, in UTC_CODES order
Miss(group) == SelectSeq(UTC_CODES, LAMBDA u : u \notin DOMAIN group)

RECURSIVE GroupFiles(_, _)
\* the loop `for fp in files` over the parsable names fs, starting from dict d
GroupFiles(fs, d) ==
    IF fs = <<>> THEN d
    ELSE LET fp  == Head(fs)
             day == parse_dt(fp)[1]
             utc == parse_dt(fp)[2]
             old == IF day \in DOMAIN d THEN d[day] ELSE Empty
             d2  == IF utc \in Range(UTC_CODES)
                    THEN [x \in DOMAIN d \cup {day} |->
                            IF x = day
                            THEN [y \in DOMAIN old \cup {utc} |->
                                    IF y = utc THEN fp ELSE old[y]]
                            ELSE d[x]]
                    ELSE d
         IN  GroupFiles(Tail(fs), d2)

----------------------------------------------------------------------------
(* Initial values of the variables a program does not use *)
AggIdle ==
    /\ strict = FALSE /\ folder = {} /\ bad = {} /\ grid = GridPool[1]
    /\ seed = 0 /\ files = <<>> /\ lat_idx = <<>> /\ lon_idx = <<>>
    /\ daily = Empty /\ todo = <<>> /\ data_daily = <<>> /\ date_list = <<>>
    /\ stage = Empty
MergeIdle ==
    /\ years = <<>> /\ store = Empty /\ yi = 1 /\ data_all = <<>>
    /\ time_all = <<>> /\ m_lat_flat = <<>> /\ m_lon_flat = <<>>
    /\ data_cat = <<>> /\ time_cat = <<>>
CheckIdle ==
    /\ src_tree = {} /\ by_day = Empty

----------------------------------------------------------------------------
(* aggregate_one_year, 02_aggregate_smap_he5.py *)
InitAgg ==
    /\ prog = "agg" /\ pc = "glob" /\ err = NoErr
    /\ strict \in BOOLEAN
    /\ \E present \in [Days -> PresentChoices], extra \in ExtraChoices :
          folder = BaseFolder(present) \cup extra
    /\ bad \in {{}} \cup { {g} : g \in { x \in folder : x.utc \in FlakyCodes } }
    /\ \/ bad = {}
       \/ \A n \in folder : n.pre = 1 /\ n.utc \in Range(UTC_CODES) /\ n.ext = "h5"
    /\ grid \in Range(GridPool)
    /\ seed \in 0..MaxSeed
    /\ files = <<>> /\ lat_idx = <<>> /\ lon_idx = <<>>
    /\ daily = Empty /\ todo = <<>> /\ data_daily = <<>> /\ date_list = <<>>
    /\ stage = Empty
    /\ out \in OutBefore(YearNames)
    /\ MergeIdle /\ CheckIdle

aggIn == <<strict, folder, bad, grid, seed>>

Finish(e) == pc' = "done" /\ err' = e

\* files = sorted(glob("*.he5")) + sorted(glob("*.h5")); if not files: return
ListFiles ==
    /\ prog = "agg" /\ pc = "glob"
    /\ files' = Glob("he5") \o Glob("h5")
    /\ IF files' = <<>> THEN Finish(NoErr) ELSE pc' = "latlon" /\ err' = err
    /\ UNCHANGED <<prog, out, aggIn, lat_idx, lon_idx, daily, todo, data_daily,
                   date_list, stage, mergeVars, checkVars>>

\* get_lat_lon(files[0]) and the crop indices; an empty window raises
CropWindow ==
    /\ prog = "agg" /\ pc = "latlon"
    /\ IF files[1] \in bad
       THEN Finish(Raise("OSError")) /\ UNCHANGED <<lat_idx, lon_idx>>
       ELSE LET ll == get_lat_lon(files[1])
                la == CropIdx(ll[1], LAT_MIN, LAT_MAX)
                lo == CropIdx(ll[2], LON_MIN, LON_MAX)
            IN  /\ lat_idx' = la /\ lon_idx' = lo
                /\ IF la = <<>> \/ lo = <<>>
                   THEN Finish(Raise("RuntimeError_crop"))
                   ELSE pc' = "group" /\ err' = err
    /\ UNCHANGED <<prog, out, aggIn, files, daily, todo, data_daily,
                   date_list, stage, mergeVars, checkVars>>

\* sorted(daily): the day strings in increasing string order
SortedDays_desc(d) ==
    LET asc == SortBy(DOMAIN d, [x \in DOMAIN d |-> x])
    IN  [i \in 1..Len(asc) |-> asc[Len(asc) + 1 - i]]
SortedDays(d) == SortBy(DOMAIN d, [x \in DOMAIN d |-> x])

\* the loop filling `daily`; parse_dt raises on the first name without a stamp
GroupByDay ==
    /\ prog = "agg" /\ pc = "group"
    /\ IF \E i \in 1..Len(files) : ~Matches(files[i])
       THEN Finish(Raise("ValueError_parse")) /\ UNCHANGED <<daily, todo>>
       ELSE /\ daily' = GroupFiles(files, Empty)
            /\ todo' = SortedDays(daily')
            /\ pc' = "days" /\ err' = err
    /\ UNCHANGED <<prog, out, aggIn, files, lat_idx, lon_idx, data_daily,
                   date_list, stage, mergeVars, checkVars>>

\* `if strict: raise RuntimeError(msg)` for a day with missing codes
MustRaise_first(miss) == miss # <<>> /\ strict /\ data_daily = <<>>
MustRaise(miss) == miss # <<>> /\ strict

\* one iteration of `for day in sorted(daily)`
OneDay ==
    /\ prog = "agg" /\ pc = "days" /\ todo # <<>>
    /\ LET day  == Head(todo)
           miss == Miss(daily[day])
       IN  IF MustRaise(miss)
           THEN /\ Finish([kind |-> "RuntimeError_missing", day |-> day, miss |-> miss])
                /\ UNCHANGED <<todo, data_daily, date_list>>
           ELSE IF miss # <<>>
           THEN /\ todo' = Tail(todo)
                /\ UNCHANGED <<pc, err, data_daily, date_list>>
           ELSE IF \E u \in Range(UTC_CODES) : daily[day][u] \in bad
           THEN /\ Finish(Raise("OSError"))
                /\ UNCHANGED <<todo, data_daily, date_list>>
           ELSE LET sm_list == [k \in 1..NCodes |->
                                  read_sm(daily[day][UTC_CODES[k]], lat_idx, lon_idx)]
                IN  /\ data_daily' = Append(data_daily, nanmean(sm_list))
                    /\ date_list' = Append(date_list, IntOf(day))
                    /\ todo' = Tail(todo)
                    /\ UNCHANGED <<pc, err>>
    /\ UNCHANGED <<prog, out, aggIn, files, lat_idx, lon_idx, daily, stage,
                   mergeVars, checkVars>>

\* after the loop: return when no day qualified, else build the arrays
Stack ==
    /\ prog = "agg" /\ pc = "days" /\ todo = <<>>
    /\ IF data_daily = <<>>
       THEN Finish(NoErr) /\ UNCHANGED stage
       ELSE LET data_3d == data_daily
                la      == Pick(grid.lat, lat_idx)
                lo      == Pick(grid.lon, lon_idx)
            IN  /\ stage' =
                     [latitude    |-> la,
                      longitude   |-> lo,
                      time        |-> date_list,
                      sm_rootzone |-> data_3d,
                      data        |-> [t \in 1..Len(data_3d) |-> Ravel(data_3d[t])],
                      lat_flat    |-> [i \in 1..(Len(la) * Len(lo)) |->
                                         F32Int(Ravel(MeshY(lo, la))[i])],
                      lon_flat    |-> [i \in 1..(Len(la) * Len(lo)) |->
                                         F32Int(Ravel(MeshX(lo, la))[i])],
                      flattened   |-> TRUE]
                /\ pc' = "open" /\ err' = err
    /\ UNCHANGED <<prog, out, aggIn, files, lat_idx, lon_idx, daily, todo,
                   data_daily, date_list, mergeVars, checkVars>>

----------------------------------------------------------------------------
(* The merger, 03_merge_yearly_daily.py *)
START_DAY == 20150331
END_DAY   == 20241231

YearPool == <<2019, 2020, 2021, 2022>>
YearSet  == { YearPool[i] : i \in 1..MaxYears }
\* the lists `years` may be: up to MaxYears entries, in any order
YearLists == UNION { [1..n -> YearSet] : n \in 0..MaxYears }

\* contents a <year>_daily.h5 may have.  Dates are ascending, as
\* aggregate_one_year writes them: two days of the year, a day before
\* start_day followed by a day of the year, one day of the year; or the file
\* does not exist.
TimeChoices(y) == { <<10000 * y + 101, 10000 * y + 102>>,
                    <<20150330, 10000 * y + 101>>,
                    <<10000 * y + 102>> }
BaseLat == <<54000, 18000>>
BaseLon == <<73000, 136000>>
\* coordinate arrays: the base arrays, or one value off by a millidegree
CoordChoices == { [lat |-> BaseLat, lon |-> BaseLon],
                  [lat |-> BaseLat, lon |-> <<73000, 136001>>],
                  [lat |-> BaseLat, lon |-> <<73001, 136000>>],
                  [lat |-> <<54001, 18000>>, lon |-> BaseLon] }
\* row k of the data matrix of year y: one value per flat point
RowOf(y, k) == <<100 * (y % 100) + 10 * k + 1, 100 * (y % 100) + 10 * k + 2>>

Container(y, t, c) ==
    [present  |-> TRUE,
     data     |-> [k \in 1..Len(t) |-> RowOf(y, k)],
     time     |-> t,
     lat_flat |-> c.lat,
     lon_flat |-> c.lon]
Absent == [present |-> FALSE, data |-> <<>>, time |-> <<>>,
           lat_flat |-> <<>>, lon_flat |-> <<>>]

None == <<>>    \* lat_flat = lon_flat = None before the first container

\* np.allclose(a, b) with the default rtol = 1e-5 and atol = 1e-8 (1e-5 of a
\* millidegree): |a - b| <= atol + rtol * |b| for every element
allclose(a, b) ==
    /\ Len(a) = Len(b)
    /\ \A i \in 1..Len(a) : 100000 * Abs(a[i] - b[i]) <= 1 + Abs(b[i])

\* arr[valid_mask]: the rows of arr whose date is in [start_day, end_day]
RECURSIVE Masked(_, _)
Masked(arr, times) ==
    IF times = <<>> THEN <<>>
    ELSE (IF Head(times) >= START_DAY /\ Head(times) <= END_DAY
          THEN <<Head(arr)>> ELSE <<>>) \o Masked(Tail(arr), Tail(times))

RECURSIVE Concat(_)
\* np.concatenate(list, axis=0)
Concat(l) == IF l = <<>> THEN <<>> ELSE Head(l) \o Concat(Tail(l))

InitMerge ==
    /\ prog = "merge" /\ pc = "read" /\ err = NoErr
    /\ years \in YearLists
    /\ \E t \in [YearSet -> UNION { TimeChoices(y) : y \in YearSet } \cup {<<>>}],
          odd \in {<<0, [lat |-> BaseLat, lon |-> BaseLon]>>}
                    \cup (YearSet \X (CoordChoices \ {[lat |-> BaseLat, lon |-> BaseLon]})) :
          /\ \A y \in YearSet : t[y] \in TimeChoices(y) \cup {<<>>}
          /\ store = [y \in YearSet |->
                        IF t[y] = <<>> THEN Absent
                        ELSE Container(y, t[y],
                               IF odd[1] = y THEN odd[2]
                               ELSE [lat |-> BaseLat, lon |-> BaseLon])]
    /\ \A y \in YearSet : ~store[y].present => store[y] = Absent
    /\ yi = 1 /\ data_all = <<>> /\ time_all = <<>>
    /\ m_lat_flat = None /\ m_lon_flat = None
    /\ data_cat = <<>> /\ time_cat = <<>>
    /\ out \in OutBefore(MergedNames)
    /\ AggIdle /\ CheckIdle

\* one iteration of `for y in years`
ReadYear ==
    /\ prog = "merge" /\ pc = "read" /\ yi <= Len(years)
    /\ LET f == store[years[yi]]
       IN  IF ~f.present
           THEN /\ Finish(Raise("OSError"))
                /\ UNCHANGED <<yi, data_all, time_all, m_lat_flat, m_lon_flat>>
           ELSE LET data  == [k \in 1..Len(f.data) |->
                                [j \in 1..Len(f.data[k]) |-> F32Int(f.data[k][j])]]
                    times == f.time
                IN  /\ data_all' = Append(data_all, Masked(data, times))
                    /\ time_all' = Append(time_all, Masked(times, times))
                    /\ IF m_lat_flat = None
                       THEN /\ m_lat_flat' = f.lat_flat
                            /\ m_lon_flat' = f.lon_flat
                            /\ yi' = yi + 1
                            /\ UNCHANGED <<pc, err>>
                       ELSE /\ UNCHANGED <<m_lat_flat, m_lon_flat>>
                            /\ IF allclose(m_lat_flat, f.lat_flat)
                                  /\ allclose(m_lon_flat, f.lon_flat)
                               THEN yi' = yi + 1 /\ UNCHANGED <<pc, err>>
                               ELSE Finish(Raise("AssertionError")) /\ yi' = yi
    /\ UNCHANGED <<prog, out, years, store, data_cat, time_cat, aggVars, checkVars>>

\* np.concatenate after the loop; an empty list of arrays raises
Stitch ==
    /\ prog = "merge" /\ pc = "read" /\ yi > Len(years)
    /\ IF data_all = <<>>
       THEN Finish(Raise("ValueError_concat")) /\ UNCHANGED <<data_cat, time_cat>>
       ELSE /\ data_cat' = Concat(data_all)
            /\ time_cat' = Concat(time_all)
            /\ pc' = "open" /\ err' = err
    /\ UNCHANGED <<prog, out, years, store, yi, data_all, time_all,
                   m_lat_flat, m_lon_flat, aggVars, checkVars>>

----------------------------------------------------------------------------
(* gather_files, 01_check_and_move_smap.py *)
YEAR  == <<2, 0, 1, 9>>
Y2015 == <<2, 0, 1, 5>>

\* adjust_2015_date raises ValueError for a date before March 31
TooEarly2015(day) ==
    LET month == 10 * day[5] + day[6]
        dd    == 10 * day[7] + day[8]
    IN  month < 3 \/ (month = 3 /\ dd < 31)

\* src.rglob("SMAP_L4_SM_gph_*.h*5")
RGlob(tree) == { f \in tree : f.pre = 1 }
\* PATTERN.search(f.name): prefix, stamp, ".h5" / ".he5"
PatternMatches(f) == f.pre = 1 /\ f.day # <<>>

InitCheck ==
    /\ prog = "check" /\ pc = "gather" /\ err = NoErr
    /\ \E present \in [Days -> PresentChoices], extra \in ExtraChoices :
          src_tree = BaseFolder(present) \cup extra
    /\ by_day = Empty
    /\ out \in OutBefore(YearNames)
    /\ AggIdle /\ MergeIdle

\* by_day[day] is the list of (utc, file) pairs of the day; its order is the
\* directory order of rglob and is kept as a set here
gather_files ==
    /\ prog = "check" /\ pc = "gather"
    /\ LET kept == { f \in RGlob(src_tree) :
                       /\ PatternMatches(f)
                       /\ SubSeq(f.day, 1, 4) = YEAR
                       /\ ~(YEAR = Y2015 /\ TooEarly2015(f.day)) }
       IN  by_day' = [d \in { f.day : f \in kept } |->
                        { <<f.utc, f>> : f \in { g \in kept : g.day = d } }]
    /\ Finish(NoErr)
    /\ UNCHANGED <<prog, out, src_tree, aggVars, mergeVars>>

----------------------------------------------------------------------------
(* Writing a container: `with h5py.File(path, "w") as hf:` followed by one  *)
(* create_dataset per name and the attribute.  Mode "w" truncates; each     *)
(* call can fail with an I/O error of the file system, which leaves the     *)
(* `with` block and closes the file with what was written so far.           *)
Names == IF prog = "agg" THEN YearNames ELSE MergedNames

OpenOut ==
    /\ pc = "open"
    /\ out' = [gen |-> "new", ds |-> Empty]
    /\ pc' = "write"
    /\ UNCHANGED <<prog, err, aggVars, mergeVars, checkVars>>

OpenFails ==
    /\ pc = "open"
    /\ Finish(Raise("OSError_open"))
    /\ UNCHANGED <<prog, out, aggVars, mergeVars, checkVars>>

NextName == Names[Cardinality(DOMAIN out.ds) + 1]

\* the array handed to create_dataset (or the attribute value) for name n
Payload(n) ==
    IF prog = "agg" THEN stage[n]
    ELSE CASE n = "data"     -> data_cat
           [] n = "time"     -> time_cat
           [] n = "lat_flat" -> m_lat_flat
           [] n = "lon_flat" -> m_lon_flat
           [] OTHER          -> TRUE

CreateDataset ==
    /\ pc = "write"
    /\ LET n == NextName
       IN  out' = [out EXCEPT !.ds = [x \in DOMAIN out.ds \cup {n} |->
                                        IF x = n THEN Payload(n) ELSE out.ds[x]]]
    /\ IF Cardinality(DOMAIN out.ds) + 1 = Len(Names)
       THEN Finish(NoErr) ELSE UNCHANGED <<pc, err>>
    /\ UNCHANGED <<prog, aggVars, mergeVars, checkVars>>

WriteFails ==
    /\ pc = "write"
    /\ Finish(Raise("OSError_write"))
    /\ UNCHANGED <<prog, out, aggVars, mergeVars, checkVars>>

NextMerge == ReadYear \/ Stitch
             \/ OpenOut \/ OpenFails \/ CreateDataset \/ WriteFails
SpecMerge == InitMerge /\ [][NextMerge]_vars

NextGroup == gather_files \/ ListFiles \/ CropWindow \/ GroupByDay \/ OneDay
             \/ Stack \/ OpenOut \/ OpenFails \/ CreateDataset \/ WriteFails
SpecGroup == (InitAgg \/ InitCheck) /\ [][NextGroup]_vars

NextAgg == ListFiles \/ CropWindow \/ GroupByDay \/ OneDay \/ Stack
           \/ OpenOut \/ OpenFails \/ CreateDataset \/ WriteFails
SpecAgg == InitAgg /\ [][NextAgg]_vars

----------------------------------------------------------------------------
(* What the folder holds, read off the names alone *)
Canon         == Range(UTC_CODES)
\* the time-codes for which day d has a granule in the folder
CodesOf(d)    == { n.utc : n \in { x \in folder : x.day = d } } \cap Canon
\* the days that have at least one granule with a canonical time-code
FoundDays     == { n.day : n \in { x \in folder : x.day # <<>> /\ x.utc \in Canon } }
CompleteDays  == { d \in FoundDays : CodesOf(d) = Canon }
PartialDays   == FoundDays \ CompleteDays
AllStamped    == \A n \in folder : n.day # <<>>

\* the i-th smallest element of a set of integers
Nth(S, i)     == CHOOSE x \in S : Cardinality({ y \in S : y < x }) = i - 1
SelRows       == { r \in 1..Len(grid.lat) : grid.lat[r] >= LAT_MIN /\ grid.lat[r] <= LAT_MAX }
SelCols       == { c \in 1..Len(grid.lon) : grid.lon[c] >= LON_MIN /\ grid.lon[c] <= LON_MAX }
WindowOk      == SelRows # {} /\ SelCols # {}

RECURSIVE SumOver(_, _)
SumOver(S, f) == IF S = {} THEN 0
                 ELSE LET x == CHOOSE y \in S : TRUE IN f[x] + SumOver(S \ {x}, f)

\* the 8 readings of day d at global cell (r, c), by index of the time-code
Readings(d, r, c) == [k \in 1..NCodes |-> RawVal(daily[d][UTC_CODES[k]], r, c)]
ValidAt(d, r, c)  == { k \in 1..NCodes : Readings(d, r, c)[k] >= SENTINEL }

\* x is the arithmetic mean of the valid readings of day d at cell (r, c),
\* the not-a-number marker when there is none
IsMeanAt(x, d, r, c) ==
    LET v == ValidAt(d, r, c)
    IN  IF v = {} THEN x.den = 0
        ELSE x.den > 0 /\ x.num * Cardinality(v) = x.den * SumOver(v, Readings(d, r, c))

\* m is the Daily Raster of day d over the crop window
IsDailyRaster(m, d) ==
    /\ Len(m) = Cardinality(SelRows)
    /\ \A i \in 1..Len(m) :
         /\ Len(m[i]) = Cardinality(SelCols)
         /\ \A j \in 1..Len(m[i]) :
              IsMeanAt(m[i][j], d, Nth(SelRows, i), Nth(SelCols, j))

DayOf(t) == CHOOSE d \in DOMAIN daily : IntOf(d) = t

Written(n) == out.gen = "new" /\ n \in DOMAIN out.ds

----------------------------------------------------------------------------
\* C1: with strict = TRUE and a day group in the folder that lacks one of the
\* 8 time-codes, the output path is never opened for writing (the file keeps
\* what it held before the call), the call does not return normally, a
\* missing-time-code error names a day that lacks codes together with exactly
\* its missing codes, and when no earlier step fails (window not empty, names
\* stamped, granules readable) the call ends with that error for the first
\* incomplete day in sorted order.
C1_StrictRaisesWithoutWriting ==
    (prog = "agg" /\ strict /\ PartialDays # {}) =>
      /\ out \in OutBefore(YearNames)
      /\ pc \notin {"open", "write"}
      /\ pc = "done" => err.kind # "none"
      /\ err.kind = "RuntimeError_missing" =>
           /\ err.day \in PartialDays
           /\ Range(err.miss) = Canon \ CodesOf(err.day)
      /\ (pc = "done" /\ WindowOk /\ AllStamped /\ bad = {}) =>
           /\ err.kind = "RuntimeError_missing"
           /\ \A d \in PartialDays \ {err.day} : LexLess(err.day, d)

\* the incomplete day comes after a complete day whose raster was already
\* computed, and an earlier container is at the output path
C1_Witness ==
    /\ prog = "agg" /\ strict /\ pc = "done"
    /\ err.kind = "RuntimeError_missing"
    /\ Len(data_daily) >= 1
    /\ out.gen = "old"

\* C2: every Daily Raster of a day with all 8 time-codes has the shape of the
\* crop window (selected latitude rows x selected longitude columns), and
\* each cell is the mean of the readings at that cell that are not below
\* -9000, the not-a-number marker when all 8 are below.
C2_DailyRasterIsMaskedMean ==
    prog = "agg" =>
      /\ Len(data_daily) = Len(date_list)
      /\ \A k \in 1..Len(data_daily) :
           /\ \E d \in DOMAIN daily : IntOf(d) = date_list[k]
           /\ DOMAIN daily[DayOf(date_list[k])] = Canon
           /\ IsDailyRaster(data_daily[k], DayOf(date_list[k]))

\* a raster with a cell invalid in all 8 readings, a cell invalid in some
\* readings, and a cell holding a reading of exactly -9000
C2_Witness ==
    /\ prog = "agg" /\ pc = "done" /\ err.kind = "none" /\ Len(data_daily) >= 1
    /\ LET d == DayOf(date_list[1])
           cells == SelRows \X SelCols
       IN  /\ \E x \in cells : ValidAt(d, x[1], x[2]) = {}
           /\ \E x \in cells : Cardinality(ValidAt(d, x[1], x[2])) \in 1..(NCodes - 1)
           /\ \E x \in cells : \E k \in 1..NCodes : Readings(d, x[1], x[2])[k] = SENTINEL

\* C3: in a written Year Container, lat_flat[i] is the cropped latitude of
\* row i // W and lon_flat[i] the cropped longitude of column i % W, for
\* every flat index i in 0 .. H*W-1 (latitude rows outer, longitude columns
\* inner).
C3_FlatCoordinatesRowMajor ==
    (prog = "agg" /\ Written("lon_flat")) =>
      LET h  == Cardinality(SelRows)
          w  == Cardinality(SelCols)
          ds == out.ds
      IN  /\ Len(ds.latitude) = h /\ Len(ds.longitude) = w
          /\ \A r \in 1..h : ds.latitude[r] = grid.lat[Nth(SelRows, r)]
          /\ \A c \in 1..w : ds.longitude[c] = grid.lon[Nth(SelCols, c)]
          /\ Len(ds.lat_flat) = h * w /\ Len(ds.lon_flat) = h * w
          /\ \A i \in 0..(h * w - 1) :
               /\ ds.lat_flat[i + 1] = ds.latitude[(i \div w) + 1]
               /\ ds.lon_flat[i + 1] = ds.longitude[(i % w) + 1]

\* a complete container over a window with more than one row and a
\* different number of columns
C3_Witness ==
    /\ prog = "agg" /\ pc = "done" /\ err.kind = "none" /\ Written("flattened")
    /\ Cardinality(SelRows) > 1 /\ Cardinality(SelCols) > 1
    /\ Cardinality(SelRows) # Cardinality(SelCols)

\* C8: with strict = FALSE a day lacking time-codes does not stop the run
\* and contributes no raster: the written time array is exactly the days with
\* all 8 time-codes, strictly ascending, sm_rootzone[k] is the Daily Raster
\* of day time[k], and with no complete day nothing is written.
C8_NonStrictSkipsIncompleteDays ==
    (prog = "agg" /\ ~strict) =>
      /\ err.kind # "RuntimeError_missing"
      /\ (pc = "done" /\ WindowOk /\ AllStamped /\ bad = {} /\ CompleteDays # {})
            => (out.gen = "new" \/ err.kind = "OSError_open")
      /\ Written("time") =>
           LET t == out.ds.time
           IN  /\ \A k \in 1..(Len(t) - 1) : t[k] < t[k + 1]
               /\ Range(t) = { IntOf(d) : d \in CompleteDays }
      /\ Written("sm_rootzone") =>
           LET t == out.ds.time
               m == out.ds.sm_rootzone
           IN  /\ Len(m) = Len(t)
               /\ \A k \in 1..Len(t) : IsDailyRaster(m[k], DayOf(t[k]))
      /\ CompleteDays = {} => out \in OutBefore(YearNames)

\* a day was skipped and the container was written with the other day
C8_Witness ==
    /\ prog = "agg" /\ ~strict /\ pc = "done" /\ err.kind = "none"
    /\ PartialDays # {} /\ Written("flattened")
    /\ Len(out.ds.time) >= 1

\* C10: in a written Year Container data has shape (T, H*W) and
\* data[d, r*W + c] = sm_rootzone[d, r, c] for all days d, rows r < H and
\* columns c < W.
C10_DataIsRowMajorFlatten ==
    (prog = "agg" /\ Written("data")) =>
      LET m == out.ds.sm_rootzone
          f == out.ds.data
          h == Cardinality(SelRows)
          w == Cardinality(SelCols)
      IN  /\ Len(f) = Len(m) /\ Len(m) = Len(out.ds.time)
          /\ \A d \in 1..Len(m) :
               /\ Len(m[d]) = h /\ Len(f[d]) = h * w
               /\ \A r \in 0..(h - 1) : \A c \in 0..(w - 1) :
                    f[d][r * w + c + 1] = m[d][r + 1][c + 1]

\* a written container whose rasters are not square and hold different values
\* in different cells
C10_Witness ==
    /\ prog = "agg" /\ pc = "done" /\ Written("flattened")
    /\ Cardinality(SelRows) # Cardinality(SelCols)
    /\ Cardinality(SelRows) > 1 /\ Cardinality(SelCols) > 1
    /\ \E r \in 1..Cardinality(SelRows) : \E c \in 1..Cardinality(SelCols) :
         out.ds.sm_rootzone[1][r][c] # out.ds.sm_rootzone[1][1][1]

----------------------------------------------------------------------------
(* The merger's inputs, read off the containers alone *)
Listed        == { years[i] : i \in 1..Len(years) }
AllPresent    == \A y \in Listed : store[y].present
SameCoords    == \A y \in Listed :
                    /\ store[y].lat_flat = store[years[1]].lat_flat
                    /\ store[y].lon_flat = store[years[1]].lon_flat
\* every date of every listed container is in range, and no date occurs twice
DatesInRange  == \A y \in Listed : \A k \in 1..Len(store[y].time) :
                    store[y].time[k] >= START_DAY /\ store[y].time[k] <= END_DAY
DatesDisjoint ==
    /\ \A i, j \in 1..Len(years) : i # j => years[i] # years[j]
    /\ \A y, z \in Listed : y # z => Range(store[y].time) \cap Range(store[z].time) = {}
    /\ \A y \in Listed : \A k, l \in 1..Len(store[y].time) :
          k # l => store[y].time[k] # store[y].time[l]

\* C4: merging containers with identical coordinates and pairwise disjoint
\* dates, all in range, gives a time array that is the increasing union of
\* the source time arrays, and data row k is the source row of date time[k],
\* for every list of years and every content of the source time arrays.
C4_MergedTimeIsSortedUnion ==
    (prog = "merge" /\ pc = "done" /\ err.kind = "none" /\ AllPresent
       /\ SameCoords /\ DatesInRange /\ DatesDisjoint) =>
      LET t == out.ds.time
          d == out.ds.data
      IN  /\ Range(t) = UNION { Range(store[y].time) : y \in Listed }
          /\ Len(d) = Len(t)
          /\ \A k \in 1..(Len(t) - 1) : t[k] < t[k + 1]
          /\ \A k \in 1..Len(t) : \E y \in Listed :
               \E l \in 1..Len(store[y].time) :
                 store[y].time[l] = t[k] /\ store[y].data[l] = d[k]

\* C5: when a listed container's lat_flat or lon_flat differs in one value
\* from the first container's, the merge ends with an error and the output
\* file is never opened for writing.
C5_AnyCoordinateDifferenceIsFatal ==
    (prog = "merge" /\ years # <<>> /\ AllPresent /\ ~SameCoords) =>
      /\ out \in OutBefore(MergedNames)
      /\ pc \notin {"open", "write"}
      /\ pc = "done" => err.kind # "none"

\* C6: when a granule of a day that has all 8 time-codes cannot be read, the
\* time-code counts as missing: a strict run ends with the missing-time-code
\* error, a non-strict run skips the day and does not end with the read
\* error.
C6_UnreadableGranuleIsMissingCode ==
    (prog = "agg" /\ pc = "done" /\ WindowOk /\ AllStamped
       /\ \E g \in bad : g.day \in CompleteDays) =>
      IF strict THEN err.kind = "RuntimeError_missing"
      ELSE err.kind # "OSError"

\* C7: wherever a run of aggregate_one_year or of the merger stops, the
\* output path was not created or modified by the run, or the container
\* holds every dataset of its format and the flattened attribute.
C7_OutputAllOrNothing ==
    (prog \in {"agg", "merge"} /\ pc = "done") =>
      \/ out \in OutBefore(Names)
      \/ out.gen = "new" /\ DOMAIN out.ds = Range(Names)

\* C9: a file whose name has no date-and-time stamp raises no error and is
\* put in no day group, in gather_files and in aggregate_one_year alike; the
\* other files are grouped as if it were absent.
C9_UnstampedNamesSkipped ==
    /\ prog = "agg" =>
         /\ err.kind # "ValueError_parse"
         /\ (pc = "done" /\ WindowOk /\ bad = {} /\ FoundDays # {}) =>
              DOMAIN daily = FoundDays
    /\ (prog = "check" /\ pc = "done") =>
         /\ \A d \in DOMAIN by_day : \A x \in by_day[d] : x[2].day = d
         /\ DOMAIN by_day =
              { f.day : f \in { g \in src_tree : g.day # <<>> /\ SubSeq(g.day, 1, 4) = YEAR } }

====
